---- MODULE Spec2Model ----
(***************************************************************************)
(* Model of scripts/export_portfolio_data.py: one run of main(), which     *)
(* reads the visualization HTML, locates and parses the Plotly trace list, *)
(* decodes every trace's x, y, z and writes portfolio_data.json.           *)
(*                                                                         *)
(* Representation choices.                                                 *)
(*  - A number is a dyadic rational [num, sh] meaning num / 2^sh: every    *)
(*    float32 and every JSON number used here is exactly of that form.     *)
(*    Rounded numbers (round(v, 2)) are integers counting hundredths.      *)
(*  - base64 text is a sequence of symbols: 0..63 are the alphabet         *)
(*    characters, Pad is "=".  Bytes are integers 0..255.                   *)
(*  - The HTML document is a sequence of lexical segments (see Segment).   *)
(***************************************************************************)
EXTENDS Integers, Sequences, FiniteSets, TLC

(* ------------------------------ bounds --------------------------------- *)
MaxDoc    == 4   \* segments in a document
MaxTraces == 3   \* traces in a parsed trace list
MaxLen    == 2   \* elements in a plain JSON array
MaxBytes  == 8   \* bytes in a packed buffer

(* ------------------------------ helpers -------------------------------- *)
RECURSIVE Pow2(_)
Pow2(n) == IF n = 0 THEN 1 ELSE 2 * Pow2(n - 1)

Abs(n) == IF n < 0 THEN -n ELSE n

SeqsUpTo(S, n) == UNION {[1..k -> S] : k \in 0..n}

(* ---------------------------- round(v, 2) ------------------------------ *)
\* n / d rounded to the nearest integer, ties to the even neighbour (d > 0).
RoundHalfEven(n, d) ==
    LET q == n \div d
        r == n % d
    IN  IF 2 * r < d THEN q
        ELSE IF 2 * r > d THEN q + 1
        ELSE IF q % 2 = 0 THEN q ELSE q + 1

\* Python's round(v, 2) on a float: correctly rounded on the exact binary
\* value, ties to even.  The result is given in hundredths.  |v.num| < 2^24,
\* so v.num * 100 < 2^31; a divisor of 2^31 or more is handled by cases.
Round2(v) ==
    IF v.sh <= 30 THEN RoundHalfEven(v.num * 100, Pow2(v.sh))
    ELSE IF v.sh = 31 /\ Abs(v.num * 100) > Pow2(30)
         THEN (IF v.num < 0 THEN -1 ELSE 1)
    ELSE 0

(* --------------------------- base64.b64decode --------------------------- *)
Pad == 64

\* Byte j (0-based) of the bit stream carried by the 6-bit symbols s.
ByteAt(s, j) ==
    LET a == (8 * j) \div 6 + 1
        o == (8 * j) % 6
    IN  IF o = 0 THEN s[a] * 4 + s[a + 1] \div 16
        ELSE IF o = 2 THEN (s[a] % 16) * 16 + s[a + 1] \div 4
        ELSE (s[a] % 4) * 64 + s[a + 1]

DataLen(text) == Cardinality({k \in 1..Len(text) : text[k] # Pad})

\* base64.b64decode(text) for a text of data symbols followed by padding:
\* [ok, bytes].  ok is FALSE for binascii.Error (incorrect padding).
B64Decode(text) ==
    LET nd   == DataLen(text)
        npad == Len(text) - nd
        data == SubSeq(text, 1, nd)
        q    == nd % 4
        fine == \/ q = 0
                \/ q = 2 /\ npad >= 2
                \/ q = 3 /\ npad >= 1
        nb   == (nd * 6) \div 8
    IN  IF fine THEN [ok |-> TRUE, bytes |-> [j \in 1..nb |-> ByteAt(data, j - 1)]]
        ELSE [ok |-> FALSE, bytes |-> <<>>]

\* The producer's encoding of a byte buffer (symbol i, 0-based, of the stream).
SymAt(b, i) ==
    LET a  == (6 * i) \div 8 + 1
        o  == (6 * i) % 8
        nx == IF a + 1 <= Len(b) THEN b[a + 1] ELSE 0
    IN  IF o = 0 THEN b[a] \div 4
        ELSE IF o = 6 THEN (b[a] % 4) * 16 + nx \div 16
        ELSE IF o = 4 THEN (b[a] % 16) * 4 + nx \div 64
        ELSE b[a] % 64

B64Encode(b) ==
    LET ns == (8 * Len(b) + 5) \div 6
        np == (4 - (ns % 4)) % 4
    IN  [i \in 1..(ns + np) |-> IF i <= ns THEN SymAt(b, i - 1) ELSE Pad]

(* ------------------------ struct.unpack("<nf") -------------------------- *)
\* The IEEE-754 binary32 value of four little-endian bytes, as num / 2^sh.
\* (Exponent 255, infinities and NaN, does not occur in the byte alphabet.)
Float32LE(b0, b1, b2, b3) ==
    LET sign == b3 \div 128
        e    == (b3 % 128) * 2 + b2 \div 128
        m    == (b2 % 128) * 65536 + b1 * 256 + b0
        mag  == IF e = 0 THEN m ELSE 8388608 + m
        sh   == IF e = 0 THEN 149 ELSE 150 - e
    IN  IF sh >= 0
        THEN [num |-> IF sign = 1 THEN -mag ELSE mag, sh |-> sh]
        ELSE [num |-> (IF sign = 1 THEN -mag ELSE mag) * Pow2(-sh), sh |-> 0]

\* A lenient unpack that reads the first n floats and ignores the rest.
StructUnpackPrefix(n, raw) ==
    [ok |-> TRUE,
     vals |-> [k \in 1..n |-> Float32LE(raw[4 * k - 3], raw[4 * k - 2],
                                        raw[4 * k - 1], raw[4 * k])]]

\* struct.unpack(f"<{n}f", raw): [ok, vals]; ok is FALSE for struct.error,
\* raised whenever the buffer is not exactly 4 * n bytes long.
StructUnpack(n, raw) ==
    IF Len(raw) # 4 * n THEN [ok |-> FALSE, vals |-> <<>>]
    ELSE [ok |-> TRUE,
          vals |-> [k \in 1..n |-> Float32LE(raw[4 * k - 3], raw[4 * k - 2],
                                             raw[4 * k - 1], raw[4 * k])]]

(* ----------------------------- JSON values ------------------------------ *)
\* The shapes a trace field can have in the parsed JSON.  "missing" is an
\* absent key; "packed" is an object with a bdata key; "empty" is {};
\* "object" is a non-empty object without bdata; "str" is a non-empty string.
Missing     == [t |-> "missing", list |-> <<>>, bdata |-> <<>>]
Null        == [t |-> "null",    list |-> <<>>, bdata |-> <<>>]
Str         == [t |-> "str",     list |-> <<>>, bdata |-> <<>>]
EmptyDict   == [t |-> "empty",   list |-> <<>>, bdata |-> <<>>]
Object      == [t |-> "object",  list |-> <<>>, bdata |-> <<>>]
Plain(s)    == [t |-> "list",    list |-> s,    bdata |-> <<>>]
Packed(b64) == [t |-> "packed",  list |-> <<>>, bdata |-> b64]

NoName == "<no name>"

\* trace.get("name", "unknown")
TraceName(trace) == IF trace.name = NoName THEN "unknown" ELSE trace.name

\* trace.get(key, {})
Get(field) == IF field.t = "missing" THEN EmptyDict ELSE field

(* ------------------------- decode_binary_array -------------------------- *)
\* [err, vals]: err = "" when the call returns vals, else the exception.
DecodeBinaryArray(data) ==
    IF data.t \in {"empty", "object"} THEN [err |-> "KeyError", vals |-> <<>>]
    ELSE IF data.t # "packed" THEN [err |-> "TypeError", vals |-> <<>>]
    ELSE LET raw == B64Decode(data.bdata)
             n   == Len(raw.bytes) \div 4
             values == StructUnpack(n, raw.bytes)
         IN  IF ~raw.ok THEN [err |-> "binascii.Error", vals |-> <<>>]
             ELSE IF ~values.ok THEN [err |-> "struct.error", vals |-> <<>>]
             ELSE [err |-> "", vals |-> [k \in 1..n |-> Round2(values.vals[k])]]

\* A comprehension that loses the last element.
RoundListDropLast(raw) ==
    IF raw.t = "list"
    THEN [err |-> "", vals |-> [k \in 1..(Len(raw.list) - 1) |-> Round2(raw.list[k])]]
    ELSE IF raw.t = "empty" THEN [err |-> "", vals |-> <<>>]
    ELSE [err |-> "TypeError", vals |-> <<>>]

\* [round(v, 2) for v in raw]: a list is rounded element by element; {} is
\* iterated as no keys; iterating any other object or string rounds a str and
\* iterating null fails: TypeError.
RoundList(raw) ==
    IF raw.t = "list"
    THEN [err |-> "", vals |-> [k \in 1..Len(raw.list) |-> Round2(raw.list[k])]]
    ELSE IF raw.t = "empty" THEN [err |-> "", vals |-> <<>>]
    ELSE [err |-> "TypeError", vals |-> <<>>]

(* ------------------------------ loop body ------------------------------- *)
NoEntry == [x |-> <<>>, y |-> <<>>, z |-> <<>>]

\* The three conversions of one branch, evaluated in the order x, y, z; the
\* first exception ends the body.  ncalls is the number of conversions started.
Convert3(x, y, z) ==
    IF x.err # "" THEN [kind |-> "raise", err |-> x.err, entry |-> NoEntry, ncalls |-> 1]
    ELSE IF y.err # "" THEN [kind |-> "raise", err |-> y.err, entry |-> NoEntry, ncalls |-> 2]
    ELSE IF z.err # "" THEN [kind |-> "raise", err |-> z.err, entry |-> NoEntry, ncalls |-> 3]
    ELSE [kind |-> "ok", err |-> "",
          entry |-> [x |-> x.vals, y |-> y.vals, z |-> z.vals], ncalls |-> 3]

\* One iteration of the for loop up to the assignment to result: the branch
\* is chosen by the shape of x alone.
LoopBody(trace) ==
    LET x_raw == Get(trace.x)
        y_raw == Get(trace.y)
        z_raw == Get(trace.z)
    IN  IF x_raw.t = "packed"
        THEN Convert3(DecodeBinaryArray(x_raw), DecodeBinaryArray(y_raw),
                      DecodeBinaryArray(z_raw))
        ELSE IF x_raw.t = "list"
        THEN Convert3(RoundList(x_raw), RoundList(y_raw), RoundList(z_raw))
        ELSE [kind |-> "skip", err |-> "", entry |-> NoEntry, ncalls |-> 0]

\* The decode_binary_array calls one iteration makes: <<argument, result>>.
CallsOf(trace) ==
    LET raws == <<Get(trace.x), Get(trace.y), Get(trace.z)>>
        r    == LoopBody(trace)
    IN  IF Get(trace.x).t = "packed"
        THEN [k \in 1..r.ncalls |-> [data |-> raws[k], ret |-> DecodeBinaryArray(raws[k])]]
        ELSE <<>>

\* Index of name among the keys of the mapping, 0 when absent.
KeyIndex(result, name) ==
    IF \E k \in 1..Len(result) : result[k].name = name
    THEN CHOOSE k \in 1..Len(result) : result[k].name = name
    ELSE 0

\* An assignment that moves a re-assigned key to the end.
PutMoveToEnd(result, name, entry) ==
    LET keep == {k \in 1..Len(result) : result[k].name # name}
        Nth(n) == CHOOSE k \in keep : Cardinality({j \in keep : j < k}) = n - 1
    IN  [n \in 1..Cardinality(keep) |-> result[Nth(n)]]
            \o <<[name |-> name, entry |-> entry]>>

\* result[name] = entry on an insertion-ordered dict: a new key goes last,
\* an existing key keeps its position and takes the new value.
Put(result, name, entry) ==
    LET k == KeyIndex(result, name)
    IN  IF k = 0 THEN Append(result, [name |-> name, entry |-> entry])
        ELSE [result EXCEPT ![k] = [name |-> name, entry |-> entry]]

(* ------------------------------ documents ------------------------------- *)
\* A document is a sequence of segments:
\*   "marker"      the text Plotly.newPlot(
\*   "customdata"  text starting [{"customdata : a JSON array, valid or not
\*   "json"        text starting [{" (another first key): a JSON array, valid or not
\*   "digit"       other text, ending in a digit
\*   "text"        other text, ending in a character that starts no JSON value
\* A JSON segment carries the value it parses to (ok, items).
Marker          == [k |-> "marker",     ok |-> FALSE, items |-> <<>>]
Text            == [k |-> "text",       ok |-> FALSE, items |-> <<>>]
Digit           == [k |-> "digit",      ok |-> FALSE, items |-> <<>>]
BadJson         == [k |-> "json",       ok |-> FALSE, items |-> <<>>]
Json(items)     == [k |-> "json",       ok |-> TRUE,  items |-> items]
CustomData(items) == [k |-> "customdata", ok |-> TRUE, items |-> items]

\* str.find over segments: first index whose kind is in kinds, 0 for -1.
Find(s, kinds) ==
    IF \E j \in 1..Len(s) : s[j].k \in kinds
    THEN CHOOSE j \in 1..Len(s) : /\ s[j].k \in kinds
                                  /\ \A h \in 1..(j - 1) : s[h].k \notin kinds
    ELSE 0

\* A locator that takes the first marker.
FindFirstMarker(s) == Find(s, {"marker"})

\* content.rfind("Plotly.newPlot("): last index of a marker, 0 for -1.
RFind(s) ==
    IF \E j \in 1..Len(s) : s[j].k = "marker"
    THEN CHOOSE j \in 1..Len(s) : /\ s[j].k = "marker"
                                  /\ \A h \in (j + 1)..Len(s) : s[h].k # "marker"
    ELSE 0

\* decoder.raw_decode on the text that starts at segment seg; tail says the
\* text is only the last character of that segment (the slice after[-1:]).
\* [err, kind, items]: kind "list" is a parsed array, "int" a parsed number.
RawDecode(seg, tail) ==
    IF tail
    THEN IF seg.k = "digit" THEN [err |-> "", kind |-> "int", items |-> <<>>]
         ELSE [err |-> "JSONDecodeError", kind |-> "none", items |-> <<>>]
    ELSE IF seg.k \in {"json", "customdata"} /\ seg.ok
         THEN [err |-> "", kind |-> "list", items |-> seg.items]
    ELSE [err |-> "JSONDecodeError", kind |-> "none", items |-> <<>>]

\* extract_traces on the document text: [err, kind, items, start], start
\* being the segment at which JSON decoding was attempted (0: not attempted).
ExtractTraces(doc) ==
    LET idx   == RFind(doc)
        after == SubSeq(doc, idx, Len(doc))
        cd    == Find(after, {"customdata"})
        bracket_start == IF cd = 0 THEN Find(after, {"json", "customdata"}) ELSE cd
        tail  == bracket_start = 0
        from  == IF tail THEN Len(after) ELSE bracket_start
        r     == RawDecode(after[from], tail)
    IN  IF idx = 0
        THEN [err |-> "ValueError", kind |-> "none", items |-> <<>>, start |-> 0]
        ELSE [err |-> r.err, kind |-> r.kind, items |-> r.items, start |-> idx + from - 1]

(* ------------------------------- inputs --------------------------------- *)
\* JSON numbers k/8, exactly representable; +-1/8 and 3/8 are rounding ties.
Vals == {[num |-> k, sh |-> 3] : k \in {-1, 1, 3}}

PlainArrays == {Plain(s) : s \in SeqsUpTo(Vals, MaxLen)}

\* 0x00 and 0x3E: the words they form include 0.125 (a tie), 0.1250002,
\* 0.18..., zero and denormals.
ByteAlphabet == {0, 62}

PackedBuffers == {Packed(B64Encode(b)) : b \in SeqsUpTo(ByteAlphabet, MaxBytes)}

\* "AA": base64 text with its padding missing.
UnpaddedB64 == Packed(<<0, 0>>)

RichFields ==
    {Missing, Null, Str, EmptyDict, Object, UnpaddedB64} \cup PlainArrays \cup PackedBuffers

OnePlain  == Plain(<<[num |-> 1, sh |-> 3]>>)
OnePacked == Packed(B64Encode(<<62, 0, 0, 62>>))

CoarseFields == {OnePlain, OnePacked}

\* Traces with one field drawn from RichFields and two from CoarseFields.
RichTraces ==
    {[name |-> "a", x |-> f, y |-> g, z |-> h] :
        f \in RichFields, g \in CoarseFields, h \in CoarseFields}
    \cup {[name |-> "a", x |-> g, y |-> f, z |-> h] :
        f \in RichFields, g \in CoarseFields, h \in CoarseFields}
    \cup {[name |-> "a", x |-> g, y |-> h, z |-> f] :
        f \in RichFields, g \in CoarseFields, h \in CoarseFields}

\* Traces for longer lists: three names (one of them absent, one equal to the
\* default), each plain or skipped, plus a packed trace and one that fails.
CoarseTraces ==
    {[name |-> n, x |-> c[1], y |-> c[2], z |-> c[3]] :
        n \in {"a", "unknown", NoName},
        c \in {<<OnePlain, OnePlain, OnePlain>>, <<Null, OnePlain, OnePlain>>}}
    \cup {[name |-> "a", x |-> OnePacked, y |-> OnePacked, z |-> OnePacked],
          [name |-> "a", x |-> OnePlain, y |-> Null, z |-> OnePlain]}

TraceLists == {<<t>> : t \in RichTraces} \cup SeqsUpTo(CoarseTraces, MaxTraces)

ListA == <<[name |-> "a", x |-> OnePlain, y |-> OnePlain, z |-> OnePlain]>>
ListB == <<[name |-> "b", x |-> OnePlain, y |-> OnePlain, z |-> OnePlain]>>

LocatorSegments == {Marker, Text, Digit, BadJson, Json(ListA), CustomData(ListB)}

Documents ==
    (SeqsUpTo(LocatorSegments, MaxDoc) \ {<<>>})
    \cup {<<Text, Marker, CustomData(l), Text>> : l \in TraceLists}

\* The output file before the run: absent, or left by an earlier run.
NoFile  == [exists |-> FALSE, data |-> <<>>]
OldFile == [exists |-> TRUE,
            data |-> <<[name |-> "old", entry |-> [x |-> <<1>>, y |-> <<2>>, z |-> <<3>>]]>>]

(* ------------------------------- state ---------------------------------- *)
VARIABLES
    inputExists,   \* html_path.exists()
    content,       \* text of the input file
    outputBefore,  \* the output file as the run found it
    outFile,       \* the output file now
    writes,        \* times the output file was opened for writing
    pc,            \* position in main: "start", "extract", "loop", "done"
    exit,          \* process exit status, -1 while running
    error,         \* what ended the run: "" or the exception
    extractCalls,  \* calls of extract_traces
    parseStart,    \* segment at which JSON decoding was attempted, 0 if none
    traces,        \* value returned by extract_traces: [kind, items]
    i,             \* index of the next trace of the for loop
    result,        \* the output mapping, keys in insertion order
    total,         \* points counted
    calls          \* decode_binary_array calls of the last iteration

vars == <<inputExists, content, outputBefore, outFile, writes, pc, exit, error,
          extractCalls, parseStart, traces, i, result, total, calls>>

NoTraces == [kind |-> "none", items |-> <<>>]

Init ==
    /\ inputExists \in BOOLEAN
    /\ content \in (IF inputExists THEN Documents ELSE {<<>>})
    /\ outputBefore \in {NoFile, OldFile}
    /\ outFile = outputBefore
    /\ writes = 0
    /\ pc = "start"
    /\ exit = -1
    /\ error = ""
    /\ extractCalls = 0
    /\ parseStart = 0
    /\ traces = NoTraces
    /\ i = 1
    /\ result = <<>>
    /\ total = 0
    /\ calls = <<>>

\* The run ends with an uncaught exception (or sys.exit(1)): status 1.
Fail(err) ==
    /\ pc' = "done"
    /\ exit' = 1
    /\ error' = err

\* main without the existence check.
StartNoCheck ==
    /\ pc = "start"
    /\ pc' = "extract"
    /\ UNCHANGED <<inputExists, content, outputBefore, outFile, writes, exit, error,
                   extractCalls, parseStart, traces, i, result, total, calls>>

\* main, lines 41-49: the paths and the existence check.
Start ==
    /\ pc = "start"
    /\ IF ~inputExists
       THEN Fail("InputMissing")
       ELSE pc' = "extract" /\ UNCHANGED <<exit, error>>
    /\ UNCHANGED <<inputExists, content, outputBefore, outFile, writes,
                   extractCalls, parseStart, traces, i, result, total, calls>>

\* main, line 50: traces = extract_traces(html_path); then result = {} and
\* total = 0.  read_text raises FileNotFoundError when there is no file.
Extract ==
    /\ pc = "extract"
    /\ extractCalls' = extractCalls + 1
    /\ LET r == ExtractTraces(content)
       IN  IF ~inputExists
           THEN Fail("FileNotFoundError") /\ UNCHANGED <<parseStart, traces>>
           ELSE /\ parseStart' = r.start
                /\ IF r.err # ""
                   THEN Fail(r.err) /\ UNCHANGED traces
                   ELSE /\ traces' = [kind |-> r.kind, items |-> r.items]
                        /\ pc' = "loop"
                        /\ UNCHANGED <<exit, error>>
    /\ i' = 1
    /\ result' = <<>>
    /\ total' = 0
    /\ UNCHANGED <<inputExists, content, outputBefore, outFile, writes, calls>>

\* main, line 55 when extract_traces returned a number: iterating it fails.
IterateNonList ==
    /\ pc = "loop"
    /\ traces.kind # "list"
    /\ Fail("TypeError")
    /\ UNCHANGED <<inputExists, content, outputBefore, outFile, writes,
                   extractCalls, parseStart, traces, i, result, total, calls>>

\* A loop iteration that also saves the mapping built so far.
ProcessTraceSaving ==
    /\ pc = "loop"
    /\ traces.kind = "list"
    /\ i <= Len(traces.items)
    /\ LET trace == traces.items[i]
           r     == LoopBody(trace)
       IN  /\ calls' = CallsOf(trace)
           /\ IF r.kind = "raise"
              THEN Fail(r.err) /\ UNCHANGED <<i, result, total, outFile, writes>>
              ELSE IF r.kind = "skip"
              THEN /\ i' = i + 1
                   /\ UNCHANGED <<pc, exit, error, result, total, outFile, writes>>
              ELSE /\ result' = Put(result, TraceName(trace), r.entry)
                   /\ total' = total + Len(r.entry.x)
                   /\ i' = i + 1
                   /\ outFile' = [exists |-> TRUE, data |-> result']
                   /\ writes' = writes + 1
                   /\ UNCHANGED <<pc, exit, error>>
    /\ UNCHANGED <<inputExists, content, outputBefore, extractCalls, parseStart, traces>>

\* main, lines 55-75: one iteration of the for loop.
ProcessTrace ==
    /\ pc = "loop"
    /\ traces.kind = "list"
    /\ i <= Len(traces.items)
    /\ LET trace == traces.items[i]
           r     == LoopBody(trace)
       IN  /\ calls' = CallsOf(trace)
           /\ IF r.kind = "raise"
              THEN Fail(r.err) /\ UNCHANGED <<i, result, total>>
              ELSE IF r.kind = "skip"
              THEN /\ i' = i + 1
                   /\ UNCHANGED <<pc, exit, error, result, total>>
              ELSE /\ result' = Put(result, TraceName(trace), r.entry)
                   /\ total' = total + Len(r.entry.x)
                   /\ i' = i + 1
                   /\ UNCHANGED <<pc, exit, error>>
    /\ UNCHANGED <<inputExists, content, outputBefore, outFile, writes,
                   extractCalls, parseStart, traces>>

\* main, lines 77-81: the loop is over; open the output file, dump the
\* mapping (key order kept), report, return: status 0.
WriteOutput ==
    /\ pc = "loop"
    /\ traces.kind = "list"
    /\ i > Len(traces.items)
    /\ outFile' = [exists |-> TRUE, data |-> result]
    /\ writes' = writes + 1
    /\ pc' = "done"
    /\ exit' = 0
    /\ UNCHANGED <<inputExists, content, outputBefore, error, extractCalls,
                   parseStart, traces, i, result, total, calls>>

Next == Start \/ Extract \/ IterateNonList \/ ProcessTrace \/ WriteOutput

Spec == Init /\ [][Next]_vars

(* ------------------------- shapes, for the claims ----------------------- *)
IsPlain(f) == f.t = "list"

\* A packed object whose buffer decodes: valid base64, a whole number of floats.
IsGoodPacked(f) ==
    /\ f.t = "packed"
    /\ B64Decode(f.bdata).ok
    /\ Len(B64Decode(f.bdata).bytes) % 4 = 0

\* Neither a plain array nor an object with bdata.
IsUnknown(f) == f.t \notin {"list", "packed"}

Fields(t) == {t.x, t.y, t.z}

Processed == IF traces.kind = "list" THEN 1..(i - 1) ELSE {}

Keys(mapping) == {mapping[k].name : k \in 1..Len(mapping)}

(* -------------------------------- C1 ------------------------------------ *)
\* C1: when the input file does not exist the run ends with a non-zero exit
\* status without ever calling extract_traces (no locate, no parse), and the
\* output file is exactly as the run found it.
C1_MissingInputExitsEarly ==
    ~inputExists =>
        /\ pc \in {"start", "done"}
        /\ extractCalls = 0 /\ parseStart = 0 /\ traces = NoTraces
        /\ writes = 0 /\ outFile = outputBefore
        /\ pc = "done" => exit = 1

C1_Witness ==
    ~inputExists /\ pc = "done" /\ error = "InputMissing" /\ outputBefore = OldFile

(* -------------------------------- C2 ------------------------------------ *)
\* C2: JSON decoding is attempted only at or after the last marker: no marker
\* lies after the segment where decoding started, and a returned trace list is
\* the value of that segment.
C2_ParsesAfterLastMarker ==
    /\ parseStart > 0 =>
          /\ \E m \in 1..parseStart : content[m].k = "marker"
          /\ \A j \in (parseStart + 1)..Len(content) : content[j].k # "marker"
    /\ traces.kind = "list" =>
          /\ parseStart > 0
          /\ content[parseStart].k \in {"json", "customdata"}
          /\ traces.items = content[parseStart].items

\* Two markers, each followed by valid JSON; the list after the second is returned.
C2_Witness ==
    /\ traces.kind = "list"
    /\ \E m1, m2 \in 1..Len(content) :
          /\ m1 + 1 < m2 /\ m2 < parseStart
          /\ content[m1].k = "marker" /\ content[m2].k = "marker"
          /\ content[m1 + 1].ok
          /\ content[m1 + 1].items # traces.items

(* -------------------------------- C4 ------------------------------------ *)
NoJsonStartAfterLastMarker ==
    \E m \in 1..Len(content) :
        /\ content[m].k = "marker"
        /\ \A j \in (m + 1)..Len(content) :
              content[j].k \notin {"marker", "json", "customdata"}

\* C4: with a marker but no JSON opening pattern after the last marker,
\* extract_traces raises the not-found error (the ValueError of the locator),
\* attempts no JSON decoding and returns nothing.
C4_NoJsonStartIsNotFound ==
    (extractCalls > 0 /\ NoJsonStartAfterLastMarker) =>
        /\ pc = "done" /\ error = "ValueError"
        /\ parseStart = 0
        /\ traces = NoTraces

(* -------------------------------- C5 ------------------------------------ *)
\* C5: every decode_binary_array call on a packed buffer of B bytes returns
\* B/4 values, value k being the rounded float of bytes 4k-3..4k, when B is a
\* multiple of 4, and raises struct.error otherwise.
C5_DecodeCountOrError ==
    \A c \in 1..Len(calls) :
        LET d   == calls[c].data
            ret == calls[c].ret
            raw == B64Decode(d.bdata).bytes
            B   == Len(raw)
        IN  (d.t = "packed" /\ B64Decode(d.bdata).ok) =>
                IF B % 4 = 0
                THEN /\ ret.err = ""
                     /\ Len(ret.vals) = B \div 4
                     /\ \A k \in 1..(B \div 4) :
                           ret.vals[k] = Round2(Float32LE(raw[4 * k - 3], raw[4 * k - 2],
                                                          raw[4 * k - 1], raw[4 * k]))
                ELSE ret.err = "struct.error" /\ ret.vals = <<>>

\* A buffer of more than 4 bytes with a remainder was rejected.
C5_Witness ==
    \E c \in 1..Len(calls) :
        /\ calls[c].data.t = "packed"
        /\ B64Decode(calls[c].data.bdata).ok
        /\ Len(B64Decode(calls[c].data.bdata).bytes) > 4
        /\ Len(B64Decode(calls[c].data.bdata).bytes) % 4 # 0
        /\ calls[c].ret.err = "struct.error"
        /\ pc = "done" /\ exit = 1

(* -------------------------------- C6 ------------------------------------ *)
\* The traces the loop does not skip: x is a plain array or has bdata.
NotSkipped(t) == t.x.t \in {"list", "packed"}

Kept == {j \in Processed : NotSkipped(traces.items[j])}

NameAt(j) == TraceName(traces.items[j])

LastKept(name) ==
    CHOOSE j \in Kept : /\ NameAt(j) = name
                        /\ \A h \in Kept : NameAt(h) = name => h <= j

FirstIn(S, name) ==
    CHOOSE j \in S : /\ NameAt(j) = name
                     /\ \A h \in S : NameAt(h) = name => j <= h

\* One key per distinct name of the kept traces, holding the arrays decoded
\* from the last kept trace of that name.
KeysAndValues ==
    /\ Keys(result) = {NameAt(j) : j \in Kept}
    /\ Len(result) = Cardinality(Keys(result))
    /\ \A k \in 1..Len(result) :
          result[k].entry = LoopBody(traces.items[LastKept(result[k].name)]).entry

\* Keys ordered by the first trace of S carrying the name.
OrderedByFirstIn(S) ==
    \A k1, k2 \in 1..Len(result) :
        k1 < k2 => FirstIn(S, result[k1].name) < FirstIn(S, result[k2].name)

\* C6 as stated: one entry per distinct name of the non-skipped traces, the
\* value of the last such trace, keys in the order the names are first seen in
\* the trace list (skipped traces included).
C6_FirstSeenInList ==
    (pc = "done" /\ exit = 0) =>
        /\ outFile.data = result
        /\ KeysAndValues
        /\ OrderedByFirstIn(Processed)

\* C6 amended: the same, with keys in the order the names are first seen among
\* the non-skipped traces.  It holds of every prefix of the loop as well.
C6_FirstSeenAmongKept ==
    /\ traces.kind = "list" => KeysAndValues /\ OrderedByFirstIn(Kept)
    /\ (pc = "done" /\ exit = 0) => outFile.data = result

\* A name written again by a later trace, after another name was first seen.
C6_Witness ==
    /\ pc = "done" /\ exit = 0
    /\ Len(outFile.data) = 2
    /\ \E j1, j2, j3 \in Kept :
          /\ j1 < j2 /\ j2 < j3
          /\ NameAt(j1) = NameAt(j3) /\ NameAt(j1) # NameAt(j2)
          /\ LoopBody(traces.items[j1]).entry # LoopBody(traces.items[j3]).entry

(* -------------------------------- C8 ------------------------------------ *)
RoundedAs(out, in) ==
    /\ Len(out) = Len(in)
    /\ \A k \in 1..Len(in) : out[k] = Round2(in[k])

\* C8: right after a trace with plain x, y and z is processed, its entry holds
\* for each field a sequence of the same length and order, element by element
\* the input rounded to 2 places.
C8_PlainRounded ==
    (traces.kind = "list" /\ i > 1) =>
        LET t == traces.items[i - 1]
        IN  (IsPlain(t.x) /\ IsPlain(t.y) /\ IsPlain(t.z)) =>
                \E k \in 1..Len(result) :
                    /\ result[k].name = TraceName(t)
                    /\ RoundedAs(result[k].entry.x, t.x.list)
                    /\ RoundedAs(result[k].entry.y, t.y.list)
                    /\ RoundedAs(result[k].entry.z, t.z.list)

\* A plain field of two different elements reached the written file.
C8_Witness ==
    /\ pc = "done" /\ exit = 0
    /\ \E j \in Processed :
          LET t == traces.items[j]
          IN  /\ IsPlain(t.x) /\ IsPlain(t.y) /\ IsPlain(t.z)
              /\ Len(t.y.list) = 2 /\ t.y.list[1] # t.y.list[2]
              /\ \E k \in 1..Len(outFile.data) :
                    outFile.data[k].entry.y = <<Round2(t.y.list[1]), Round2(t.y.list[2])>>

(* -------------------------------- C10 ----------------------------------- *)
\* C10: the output file is opened at most once, only when extraction and the
\* whole loop have completed; until then, and in every run that ends in a
\* failure, it is as the run found it.
C10_SingleLateWrite ==
    /\ writes <= 1
    /\ writes = 1 =>
          /\ pc = "done" /\ exit = 0
          /\ traces.kind = "list" /\ i = Len(traces.items) + 1
    /\ writes = 0 => outFile = outputBefore
    /\ (pc = "done" /\ exit # 0) => (writes = 0 /\ outFile = outputBefore)

\* A decode error on a later trace, after an earlier trace was decoded.
C10_Witness ==
    /\ pc = "done" /\ exit = 1 /\ error = "TypeError"
    /\ Len(result) > 0
    /\ outputBefore = OldFile /\ outFile = OldFile

(* -------------------------------- C3 ------------------------------------ *)
Uniform(t) ==
    \/ \A f \in Fields(t) : IsPlain(f)
    \/ \A f \in Fields(t) : IsGoodPacked(f)

HasUnknown(t) == \E f \in Fields(t) : IsUnknown(f)

\* C3: when every trace is either well formed or has a field of unknown
\* shape, the run exits 0, writes the file, and the file has exactly the
\* names of the well-formed traces.
C3_UnknownShapeSkipped ==
    (/\ pc = "done" /\ traces.kind = "list"
     /\ \A j \in 1..Len(traces.items) :
            Uniform(traces.items[j]) \/ HasUnknown(traces.items[j]))
    => /\ exit = 0 /\ writes = 1
       /\ Keys(outFile.data) =
            {NameAt(j) : j \in {h \in 1..Len(traces.items) : Uniform(traces.items[h])}}

(* -------------------------------- C7 ------------------------------------ *)
\* The decoding of one field by the rule of its own shape.
OwnDecode(f) == IF IsPlain(f) THEN RoundList(f).vals ELSE DecodeBinaryArray(f).vals

\* C7: when every field of every trace is a plain array or a decodable packed
\* object, the run completes and each entry holds every field decoded by the
\* rule of that field's shape.
C7_EachFieldByOwnShape ==
    (/\ pc = "done" /\ traces.kind = "list"
     /\ \A j \in 1..Len(traces.items) :
            \A f \in Fields(traces.items[j]) : IsPlain(f) \/ IsGoodPacked(f))
    => /\ exit = 0
       /\ \A k \in 1..Len(outFile.data) :
             LET t == traces.items[LastKept(outFile.data[k].name)]
             IN  outFile.data[k].entry =
                    [x |-> OwnDecode(t.x), y |-> OwnDecode(t.y), z |-> OwnDecode(t.z)]

(* -------------------------------- C9 ------------------------------------ *)
\* C9: every entry of the written output has x, y and z of one length.
C9_EqualLengths ==
    (pc = "done" /\ exit = 0) =>
        \A k \in 1..Len(outFile.data) :
            LET e == outFile.data[k].entry
            IN  Len(e.x) = Len(e.y) /\ Len(e.y) = Len(e.z)

====
